---- MODULE Spec2Model ----
(***************************************************************************)
(* A model of PINT's ground-observatory clock chain                        *)
(* (pint/observatory/topo_obs.py, class TopoObs) and of the fermiphase     *)
(* script (pint/scripts/fermiphase.py, main).                              *)
(*                                                                         *)
(* Python's None is written "None" where the other values are strings and  *)
(* <<>> where they are tuples, tables or records-in-a-box: an optional     *)
(* value v is <<v>>, its absence <<>>.  Time corrections are integers, in  *)
(* microseconds.                                                           *)
(***************************************************************************)
EXTENDS Integers, Sequences, FiniteSets, TLC

VARIABLES
    env,        \* the process environment: packaged data files, $TEMPO/$TEMPO2
    registry,   \* Observatory's process-wide lookup: the registered keys
    self,       \* the TopoObs instance under study, <<>> before construction
    ctor,       \* the last TopoObs(...) call: its arguments and its error
    call,       \* the last clock_corrections(t) call: t, the error and the
                \* stage that raised it, the value returned, the stages
                \* whose table the call found cached
    loads,      \* per stage, ClockFile.read calls that returned a table to self
    touched,    \* stages whose path clock_corrections has resolved on self
    eventfile,  \* the Fermi FT1 event file: its rows' times, its PULSE_PHASE
    outfile,    \* the file --outfile names, <<>> while it does not exist
    results,    \* the pickled result store, by pulsar
    run         \* the fermiphase run made: arguments, intermediates, outcome

obsvars == <<env, registry, self, ctor, call, loads, touched>>

fermivars == <<eventfile, outfile, results, run>>

vars == <<env, registry, self, ctor, call, loads, touched,
          eventfile, outfile, results, run>>

None == "None"

Stage == {"site", "gps", "bipm"}

(***************************************************************************)
(* Bounds of the model.                                                    *)
(***************************************************************************)
MaxCorr == 1    \* a table's correction at an instant is 0..MaxCorr us

\* The instants clock_corrections is asked at.
Times == {0, 1}

\* The content a clock file can have: a correction for every instant.
Tables == [Times -> 0..MaxCorr]

\* tt2tai = 32.184 * 1e6 * u.us
tt2tai == 32184000

(***************************************************************************)
(* Errors.  type "None" is no error.                                       *)
(***************************************************************************)
NoErr == [type |-> "None", msg |-> "", arg |-> ""]

Raise(type, msg, arg) == [type |-> type, msg |-> msg, arg |-> arg]

(***************************************************************************)
(* The collaborators: pint.config.datapath, os.getenv, os.path.join,       *)
(* ClockFile.read, ClockFile.evaluate, Observatory.__init__.               *)
(***************************************************************************)
\* A path is <<directory, file name>>; a directory and a file name are tuples
\* of their pieces.
NoPath == <<>>

\* datapath(fname): the packaged file's path, or None when there is none.
datapath(fname) ==
    IF fname \in env.datapath THEN <<(<<"pintdata">>), fname>> ELSE NoPath

\* os.getenv(name): None when the variable is not set.
getenv(name) == IF name \in env.getenv THEN <<"$" , name>> ELSE <<>>

\* os.path.join(dir, 'clock', fname): a TypeError when dir is None.
PathJoin(dir, fname) ==
    IF dir = <<>>
    THEN [err |-> Raise("TypeError", "join", "NoneType"), path |-> NoPath]
    ELSE [err |-> NoErr, path |-> <<dir, fname>>]

\* Whether a file is there to be opened.  datapath only returns paths of
\* files that exist; the directories outside the package hold the clock
\* files or do not (env.ext).
FileExists(path) ==
    /\ path # NoPath
    /\ (path[1] = <<"pintdata">> \/ env.ext)

\* ClockFile.read(path, ...): the table the file holds (content), or the
\* error of opening what is not there.
ClockFile_read(path, content) ==
    IF FileExists(path)
    THEN [err |-> NoErr, clock |-> <<content>>]
    ELSE [err |-> Raise("IOError", "cannot read clock file", "path"),
          clock |-> <<>>]

\* table.evaluate(t)
evaluate(table, t) == table[t]

(***************************************************************************)
(* TopoObs.__init__                                                        *)
(***************************************************************************)
\* numpy.array(itrf_xyz).shape, for a flat sequence of coordinates
Shape(xyz) == <<Len(xyz)>>

\* CtorError with the dimension check left out.
CtorErrorNoShapeCheck(a) ==
    IF a.itrf_xyz = <<>>
    THEN Raise("ValueError", "ITRF coordinates not given for observatory",
               a.name)
    ELSE IF a.clock_dir = "TEMPO" /\ a.clock_file = <<"time.dat">>
            /\ a.tempo_code = None
    THEN Raise("ValueError", "No tempo_code set for observatory", a.name)
    ELSE NoErr

\* The checks of __init__, in the order the code makes them.
CtorError(a) ==
    IF a.itrf_xyz = <<>>
    THEN Raise("ValueError", "ITRF coordinates not given for observatory",
               a.name)
    ELSE IF Shape(a.itrf_xyz[1]) # <<3>>
    THEN Raise("ValueError",
               "Incorrect coordinate dimensions for observatory", a.name)
    ELSE IF a.clock_dir = "TEMPO" /\ a.clock_file = <<"time.dat">>
            /\ a.tempo_code = None
    THEN Raise("ValueError", "No tempo_code set for observatory", a.name)
    ELSE NoErr

\* aliases, with the codes that are given appended
Aliases(a) ==
    {c \in {a.tempo_code, a.itoa_code} : c # None}

\* Observatory.__init__(name, aliases): registers the instance under its
\* name and aliases; a name already registered is rejected.
RegisterError(name) ==
    IF name \in registry
    THEN Raise("ValueError", "Observatory already registered", name)
    ELSE NoErr

Registered(name, aliases) == registry \cup {name} \cup aliases

\* The instance __init__ leaves behind.
NewObs(a) ==
    [ name         |-> a.name,
      _loc_itrf    |-> a.itrf_xyz[1],
      clock_file   |-> a.clock_file,
      clock_dir    |-> a.clock_dir,
      clock_fmt    |-> a.clock_fmt,
      _clock       |-> <<>>,
      include_gps  |-> a.include_gps,
      _gps_clock   |-> <<>>,
      include_bipm |-> a.include_bipm,
      bipm_version |-> a.bipm_version,
      _bipm_clock  |-> <<>>,
      tempo_code   |-> a.tempo_code ]

NoLoads == [s \in Stage |-> 0]

\* TopoObs(**a).  The model follows one instance: the first one built.
Construct(a) ==
    /\ self = <<>>
    /\ LET e1 == CtorError(a)
           e2 == IF e1 = NoErr THEN RegisterError(a.name) ELSE e1
       IN  /\ ctor' = [args |-> <<a>>, err |-> e2]
           /\ IF e2 = NoErr
              THEN /\ self' = <<NewObs(a)>>
                   /\ registry' = Registered(a.name, Aliases(a))
              ELSE UNCHANGED <<self, registry>>
    /\ loads' = NoLoads
    /\ touched' = {}
    /\ UNCHANGED <<env, call>>
    /\ UNCHANGED fermivars

(***************************************************************************)
(* The three path properties                                               *)
(***************************************************************************)
\* TopoObs.clock_fullpath
clock_fullpath(o) ==
    IF o.clock_dir = "PINT"
    THEN [err |-> NoErr, path |-> datapath(o.clock_file)]
    ELSE IF o.clock_dir = "TEMPO"
    THEN PathJoin(getenv("TEMPO"), o.clock_file)
    ELSE IF o.clock_dir = "TEMPO2"
    THEN PathJoin(getenv("TEMPO2"), o.clock_file)
    ELSE PathJoin(<<o.clock_dir>>, o.clock_file)

\* TopoObs.gps_fullpath
gps_fullpath(o) ==
    LET fname == <<"gps2utc.clk">>
        fullpath == datapath(fname)
    IN  IF fullpath # NoPath
        THEN [err |-> NoErr, path |-> fullpath]
        ELSE PathJoin(getenv("TEMPO2"), fname)

\* str.lower() on the version tags in use
Lower(s) ==
    CASE s = "BIPM2015" -> "bipm2015"
      [] s = "BIPM2017" -> "bipm2017"
      [] OTHER -> s

\* TopoObs.bipm_fullpath: any error of the fallback is swallowed into None.
bipm_fullpath(o) ==
    LET fname == <<"tai2tt_", Lower(o.bipm_version), ".clk">>
        fullpath == datapath(fname)
    IN  IF fullpath # NoPath
        THEN [err |-> NoErr, path |-> fullpath]
        ELSE LET j == PathJoin(getenv("TEMPO2"), fname)
             IN  IF j.err = NoErr THEN j ELSE [err |-> NoErr, path |-> NoPath]

(***************************************************************************)
(* TopoObs.clock_corrections                                               *)
(***************************************************************************)
\* LoadSite without the "is None" test: the file is read on every call.
LoadSiteEveryCall(o, content) ==
    LET p == clock_fullpath(o)
        r == ClockFile_read(p.path, content)
    IN  IF p.err # NoErr
        THEN [err |-> p.err, clock |-> <<>>, read |-> FALSE]
        ELSE [err |-> r.err, clock |-> r.clock, read |-> r.err = NoErr]

\* "if self._clock is None: self._clock = ClockFile.read(self.clock_fullpath,
\* ...)": the slot after the statement, or the error it raises.  `content`
\* is what the file holds when it is read.
LoadSite(o, content) ==
    IF o._clock # <<>>
    THEN [err |-> NoErr, clock |-> o._clock, read |-> FALSE]
    ELSE LET p == clock_fullpath(o)
         IN  IF p.err # NoErr
             THEN [err |-> p.err, clock |-> <<>>, read |-> FALSE]
             ELSE LET r == ClockFile_read(p.path, content)
                  IN  [err |-> r.err, clock |-> r.clock,
                       read |-> r.err = NoErr]

\* The same for self._gps_clock.
LoadGps(o, content) ==
    IF o._gps_clock # <<>>
    THEN [err |-> NoErr, clock |-> o._gps_clock, read |-> FALSE]
    ELSE LET p == gps_fullpath(o)
         IN  IF p.err # NoErr
             THEN [err |-> p.err, clock |-> <<>>, read |-> FALSE]
             ELSE LET r == ClockFile_read(p.path, content)
                  IN  [err |-> r.err, clock |-> r.clock,
                       read |-> r.err = NoErr]

\* The same for self._bipm_clock, where the load sits in a try whose bare
\* except re-raises everything as a ValueError naming bipm_version.
LoadBipm(o, content) ==
    IF o._bipm_clock # <<>>
    THEN [err |-> NoErr, clock |-> o._bipm_clock, read |-> FALSE]
    ELSE LET p == bipm_fullpath(o)
             r == ClockFile_read(p.path, content)
         IN  IF p.err # NoErr \/ r.err # NoErr
             THEN [err |-> Raise("ValueError", "Can not find TT BIPM file",
                                 o.bipm_version),
                   clock |-> <<>>, read |-> FALSE]
             ELSE [err |-> NoErr, clock |-> r.clock, read |-> TRUE]

\* BipmTerm without the TAI->TT offset.
BipmTermNoOffset(table, t) == evaluate(table, t)

\* "corr += self._bipm_clock.evaluate(t) - tt2tai"
BipmTerm(table, t) == evaluate(table, t) - tt2tai

\* GpsEnabled with the flag ignored.
GpsAlways(o) == TRUE

\* "if self.include_gps:"
GpsEnabled(o) == o.include_gps

\* "if self.include_bipm:"
BipmEnabled(o) == o.include_bipm

\* clock_corrections as a transaction: a call that raises puts the slots
\* back as it found them.
clock_correctionsRollback(t, disk) ==
    /\ self # <<>>
    /\ LET o  == self[1]
           s  == LoadSite(o, disk["site"])
           o1 == [o EXCEPT !._clock = s.clock]
           c1 == IF s.err = NoErr THEN evaluate(s.clock[1], t) ELSE 0
           doG == s.err = NoErr /\ GpsEnabled(o)
           g  == IF doG THEN LoadGps(o1, disk["gps"])
                 ELSE [err |-> s.err, clock |-> o._gps_clock, read |-> FALSE]
           o2 == [o1 EXCEPT !._gps_clock = g.clock]
           c2 == IF doG /\ g.err = NoErr
                 THEN c1 + evaluate(g.clock[1], t) ELSE c1
           doB == g.err = NoErr /\ BipmEnabled(o)
           b  == IF doB THEN LoadBipm(o2, disk["bipm"])
                 ELSE [err |-> g.err, clock |-> o._bipm_clock, read |-> FALSE]
           o3 == [o2 EXCEPT !._bipm_clock = b.clock]
           c3 == IF doB /\ b.err = NoErr
                 THEN c2 + BipmTerm(b.clock[1], t) ELSE c2
       IN  /\ self' = IF b.err = NoErr THEN <<o3>> ELSE self
           /\ call' = [t |-> <<t>>, err |-> b.err,
                       ret |-> IF b.err = NoErr THEN <<c3>> ELSE <<>>,
                       at |-> IF s.err # NoErr THEN "site"
                              ELSE IF g.err # NoErr THEN "gps"
                              ELSE IF b.err # NoErr THEN "bipm" ELSE None,
                       hit |-> (IF o._clock # <<>> THEN {"site"} ELSE {})
                          \cup (IF doG /\ o._gps_clock # <<>>
                                THEN {"gps"} ELSE {})
                          \cup (IF doB /\ o._bipm_clock # <<>>
                                THEN {"bipm"} ELSE {})]
           /\ loads' = [x \in Stage |->
                          loads[x] + (IF \/ x = "site" /\ s.read
                                         \/ x = "gps" /\ g.read
                                         \/ x = "bipm" /\ b.read
                                      THEN 1 ELSE 0)]
           /\ touched' = touched
                \cup (IF o._clock = <<>> THEN {"site"} ELSE {})
                \cup (IF doG /\ o._gps_clock = <<>> THEN {"gps"} ELSE {})
                \cup (IF doB /\ o._bipm_clock = <<>> THEN {"bipm"} ELSE {})
    /\ UNCHANGED <<env, registry, ctor>>
    /\ UNCHANGED fermivars

\* self.clock_corrections(t); disk[s] is the content of stage s's file at
\* the time of the call.
clock_corrections(t, disk) ==
    /\ self # <<>>
    /\ LET o  == self[1]
           s  == LoadSite(o, disk["site"])
           o1 == [o EXCEPT !._clock = s.clock]
           c1 == IF s.err = NoErr THEN evaluate(s.clock[1], t) ELSE 0
           doG == s.err = NoErr /\ GpsEnabled(o)
           g  == IF doG THEN LoadGps(o1, disk["gps"])
                 ELSE [err |-> s.err, clock |-> o._gps_clock, read |-> FALSE]
           o2 == [o1 EXCEPT !._gps_clock = g.clock]
           c2 == IF doG /\ g.err = NoErr
                 THEN c1 + evaluate(g.clock[1], t) ELSE c1
           doB == g.err = NoErr /\ BipmEnabled(o)
           b  == IF doB THEN LoadBipm(o2, disk["bipm"])
                 ELSE [err |-> g.err, clock |-> o._bipm_clock, read |-> FALSE]
           o3 == [o2 EXCEPT !._bipm_clock = b.clock]
           c3 == IF doB /\ b.err = NoErr
                 THEN c2 + BipmTerm(b.clock[1], t) ELSE c2
       IN  /\ self' = <<o3>>
           /\ call' = [t |-> <<t>>, err |-> b.err,
                       ret |-> IF b.err = NoErr THEN <<c3>> ELSE <<>>,
                       at |-> IF s.err # NoErr THEN "site"
                              ELSE IF g.err # NoErr THEN "gps"
                              ELSE IF b.err # NoErr THEN "bipm" ELSE None,
                       hit |-> (IF o._clock # <<>> THEN {"site"} ELSE {})
                          \cup (IF doG /\ o._gps_clock # <<>>
                                THEN {"gps"} ELSE {})
                          \cup (IF doB /\ o._bipm_clock # <<>>
                                THEN {"bipm"} ELSE {})]
           /\ loads' = [x \in Stage |->
                          loads[x] + (IF \/ x = "site" /\ s.read
                                         \/ x = "gps" /\ g.read
                                         \/ x = "bipm" /\ b.read
                                      THEN 1 ELSE 0)]
           /\ touched' = touched
                \cup (IF o._clock = <<>> THEN {"site"} ELSE {})
                \cup (IF doG /\ o._gps_clock = <<>> THEN {"gps"} ELSE {})
                \cup (IF doB /\ o._bipm_clock = <<>> THEN {"bipm"} ELSE {})
    /\ UNCHANGED <<env, registry, ctor>>
    /\ UNCHANGED fermivars

(***************************************************************************)
(* fermiphase: main(argv)                                                  *)
(*                                                                         *)
(* Times of events are whole MJDs.  A phase is a whole number of           *)
(* 1/Cycle-ths of a cycle.                                                 *)
(***************************************************************************)
MaxEvents == 3  \* rows of the event file
MaxMJD == 3     \* event times and --minMJD/--maxMJD are 1..MaxMJD
PhaseRes == 1   \* a quarter of a cycle is PhaseRes units

Cycle == 4 * PhaseRes

\* pulsar = args.parfile.split("/")[-1].split(".")[0]; a parfile is the
\* tuple of its "/"-separated parts, each the tuple of its "."-separated
\* pieces.
PulsarOf(parfile) == parfile[Len(parfile)][1]

\* load_Fermi_TOAs(eventfile, ...): a TOA for every row, in the rows' order
load_Fermi_TOAs(ef) == ef.mjd

\* AfterMin with the bound itself let through.
AfterMinInclusive(mjd, minT) == mjd >= minT

\* "if tt.mjd > minT:"
AfterMin(mjd, minT) == mjd > minT

\* "if tt.mjd < maxT:"
BeforeMax(mjd, maxT) == mjd < maxT

\* "for tt in tl: if tt.mjd > minT: tlnew.append(tt)", from tlnew on
RECURSIVE KeepAfterMin(_, _, _)
KeepAfterMin(tl, minT, tlnew) ==
    IF tl = <<>> THEN tlnew
    ELSE KeepAfterMin(Tail(tl), minT,
                      IF AfterMin(Head(tl), minT)
                      THEN Append(tlnew, Head(tl)) ELSE tlnew)

\* "for tt in tl: if tt.mjd < maxT: tlnew.append(tt)", from tlnew on
RECURSIVE KeepBeforeMax(_, _, _)
KeepBeforeMax(tl, maxT, tlnew) ==
    IF tl = <<>> THEN tlnew
    ELSE KeepBeforeMax(Tail(tl), maxT,
                       IF BeforeMax(Head(tl), maxT)
                       THEN Append(tlnew, Head(tl)) ELSE tlnew)

\* "Discard events outside of MJD range": the minimum first, then the
\* maximum, each only when it is given.
DiscardOutsideMJD(tl, minMJD, maxMJD) ==
    LET tl1 == IF minMJD # <<>> THEN KeepAfterMin(tl, minMJD[1], <<>>)
               ELSE tl
    IN  IF maxMJD # <<>> THEN KeepBeforeMax(tl1, maxMJD[1], <<>>) ELSE tl1

\* FoldPhase with 0 taken for negative.
FoldPhaseNonPositive(phs) == IF phs <= 0 THEN phs + Cycle ELSE phs

\* np.where(phss < 0.0 * u.cycle, phss + 1.0 * u.cycle, phss), one element
FoldPhase(phs) == IF phs < 0 THEN phs + Cycle ELSE phs

\* results[pulsar] = {"random": [], "valid": {}, "full": {}}; a dict is the
\* set of its <<key, value>> pairs.
EmptyEntry == [random |-> <<>>, valid |-> {}, full |-> {}]

\* d[key] = value
DictSet(d, key, value) == {kv \in d : kv[1] # key} \cup {<<key, value>>}

\* The bucket "add H-test value" writes: the if / elif / else on
\* args.randomphase and args.minMJD.
BucketOf(a) ==
    IF a.randomphase THEN "random"
    ELSE IF a.minMJD # <<>> THEN "valid"
    ELSE "full"

\* "if args.hout:": the store pickle.dump writes back.
SaveH(res, a, h) ==
    LET pulsar == PulsarOf(a.parfile)
        e == IF res[pulsar] = <<>> THEN EmptyEntry ELSE res[pulsar][1]
        b == BucketOf(a)
        e1 == IF b = "random"
              THEN [e EXCEPT !.random = Append(e.random, h)]
              ELSE IF b = "valid"
              THEN [e EXCEPT !.valid = DictSet(e.valid, a.logeref, h)]
              ELSE [e EXCEPT !.full = DictSet(e.full, a.logeref, h)]
    IN  [res EXCEPT ![pulsar] = <<e1>>]

\* "if args.outfile is not None: args.addphase = True"
AddPhase(a) == a.addphase \/ a.outfile # None

\* "if len(event_dat) != len(phases): raise RuntimeError(...)"
LengthMismatch(ef, phases) == Len(ef.mjd) # Len(phases)

\* The event table with PULSE_PHASE overwritten, or added when it is not
\* there.
WithPhaseColumn(ef, phases) == [ef EXCEPT !.phase = <<phases>>]

NoRun ==
    [args |-> <<>>, tl |-> <<>>, phss |-> <<>>, folded |-> <<>>,
     phases |-> <<>>, h |-> <<>>, err |-> NoErr, saved |-> FALSE]

\* main(argv) with the arguments a; phss is what modelin.phase returns for
\* the retained events, rnd what np.random.uniform draws, h what hmw
\* computes.  One process runs main once.
main(a, phss, rnd, h) ==
    /\ run = NoRun
    /\ LET tl == DiscardOutsideMJD(load_Fermi_TOAs(eventfile),
                                   a.minMJD, a.maxMJD)
           \* print(mjds.min(), mjds.max()) of no TOAs
           empty == tl = <<>>
           folded == [i \in 1..Len(tl) |-> FoldPhase(phss[i])]
           phases == IF a.randomphase THEN rnd ELSE folded
           mismatch == AddPhase(a) /\ LengthMismatch(eventfile, phases)
           err == IF empty
                  THEN Raise("ValueError", "zero-size array", "min")
                  ELSE IF mismatch
                  THEN Raise("RuntimeError",
                             "Mismatch between length of FITS table and length of phase array",
                             "")
                  ELSE NoErr
       IN  /\ Len(phss) = Len(tl)
           /\ Len(rnd) = Len(tl)
           /\ run' = [args |-> <<a>>, tl |-> tl,
                      phss |-> IF empty THEN <<>> ELSE phss,
                      folded |-> IF empty THEN <<>> ELSE folded,
                      phases |-> IF empty THEN <<>> ELSE phases,
                      h |-> IF empty THEN <<>> ELSE <<h>>,
                      err |-> err,
                      saved |-> ~empty /\ a.hout]
           /\ results' = IF ~empty /\ a.hout THEN SaveH(results, a, h)
                         ELSE results
           /\ eventfile' = IF err = NoErr /\ AddPhase(a) /\ a.outfile = None
                           THEN WithPhaseColumn(eventfile, phases)
                           ELSE eventfile
           /\ outfile' = IF err = NoErr /\ AddPhase(a) /\ a.outfile # None
                         THEN <<WithPhaseColumn(eventfile, phases)>>
                         ELSE outfile
    /\ UNCHANGED obsvars

(***************************************************************************)
(* The inputs and the specifications of the observatory                    *)
(***************************************************************************)
Names == {"gbt", "ao"}

Pulsars == {"J0030", "J0218"}

Xyz == { <<>>, << <<0, 0>> >>, << <<0, 0, 0>> >>, << <<0, 0, 0, 0>> >> }

Versions == {"BIPM2015", "BIPM2017"}

AllArgs ==
    [ name : Names, tempo_code : {None, "1"}, itoa_code : {None, "GB"},
      itrf_xyz : Xyz, clock_file : {<<"time.dat">>, <<"gbt.clk">>},
      clock_dir : {"PINT", "TEMPO", "TEMPO2", "/clk"},
      clock_fmt : {"tempo", "tempo2"},
      include_gps : BOOLEAN, include_bipm : BOOLEAN,
      bipm_version : Versions ]

\* Construction in all its arguments but the chain's, which are the defaults.
CtorArgs ==
    {a \in AllArgs : a.include_gps /\ a.include_bipm
                     /\ a.bipm_version = "BIPM2015"}

\* The chain's arguments, for one site reading time.dat with its code.
ClockArgs ==
    {a \in AllArgs : /\ a.name = "gbt" /\ a.tempo_code = "1"
                     /\ a.itoa_code = None /\ a.clock_fmt = "tempo"
                     /\ a.clock_file = <<"time.dat">>
                     /\ a.clock_dir \in {"PINT", "TEMPO"}
                     /\ Len(a.itrf_xyz) = 1 => Len(a.itrf_xyz[1]) = 3}

FileNames ==
    { <<"time.dat">>, <<"gps2utc.clk">>, <<"tai2tt_", "bipm2015", ".clk">> }

\* The environments: any of the files packaged, $TEMPO and $TEMPO2 both set
\* or both unset, their clock directories holding the files or not.
Envs ==
    [ datapath : SUBSET FileNames, getenv : {{}, {"TEMPO", "TEMPO2"}},
      ext : BOOLEAN ]

NoCall == [t |-> <<>>, err |-> NoErr, ret |-> <<>>, at |-> None, hit |-> {}]

NoCtor == [args |-> <<>>, err |-> NoErr]

\* No fermiphase run, and no files of one.
FermiIdle ==
    /\ eventfile = [mjd |-> <<>>, phase |-> <<>>]
    /\ outfile = <<>>
    /\ results = [p \in Pulsars |-> <<>>]
    /\ run = NoRun

\* The clock chain: any environment, no observatory registered yet.
Init ==
    /\ env \in Envs
    /\ registry = {}
    /\ self = <<>>
    /\ ctor = NoCtor
    /\ call = NoCall
    /\ loads = NoLoads
    /\ touched = {}
    /\ FermiIdle

\* The contents worth telling apart for a file: any, when the call may read
\* it; one, when its table is cached or its stage is off.
Contents(slot, enabled) ==
    IF slot = <<>> /\ enabled THEN Tables ELSE {[t \in Times |-> 0]}

Disks ==
    IF self = <<>> THEN {}
    ELSE LET o == self[1]
         IN  { [site |-> s, gps |-> g, bipm |-> b] :
                 s \in Contents(o._clock, TRUE),
                 g \in Contents(o._gps_clock, o.include_gps),
                 b \in Contents(o._bipm_clock, o.include_bipm) }

Next ==
    \/ \E a \in ClockArgs : Construct(a)
    \/ \E t \in Times, disk \in Disks : clock_corrections(t, disk)

Spec == Init /\ [][Next]_vars

\* The clock chain over a file system that changes between calls.  The path
\* properties look the files up anew at every call that has a table to load,
\* so a file that was missing at one call can be there at the next: f is put
\* among the packaged data files.
InstallClockFile(f) ==
    /\ f \notin env.datapath
    /\ env' = [env EXCEPT !.datapath = @ \cup {f}]
    /\ UNCHANGED <<registry, self, ctor, call, loads, touched>>
    /\ UNCHANGED fermivars

NextRetry ==
    \/ \E a \in ClockArgs : Construct(a)
    \/ \E t \in Times, disk \in Disks : clock_corrections(t, disk)
    \/ \E f \in FileNames : InstallClockFile(f)

SpecRetry == Init /\ [][NextRetry]_vars

\* Construction: a complete environment, other observatories registered.
InitCtor ==
    /\ env = [datapath |-> FileNames, getenv |-> {"TEMPO", "TEMPO2"},
              ext |-> TRUE]
    /\ registry \in SUBSET Names
    /\ self = <<>>
    /\ ctor = NoCtor
    /\ call = NoCall
    /\ loads = NoLoads
    /\ touched = {}
    /\ FermiIdle

NextCtor == \E a \in CtorArgs : Construct(a)

SpecCtor == InitCtor /\ [][NextCtor]_vars

(***************************************************************************)
(* Properties of the clock chain                                           *)
(***************************************************************************)
Called == call.t # <<>>

Returned == Called /\ call.err = NoErr

\* The slot of a stage on an instance.
Slot(o, s) ==
    CASE s = "site" -> o._clock
      [] s = "gps"  -> o._gps_clock
      [] s = "bipm" -> o._bipm_clock

Enabled(o, s) ==
    CASE s = "site" -> TRUE
      [] s = "gps"  -> o.include_gps
      [] s = "bipm" -> o.include_bipm

\* Whether the environment lets a stage's file be resolved and read.
Loadable(o, s) ==
    LET p == CASE s = "site" -> clock_fullpath(o)
               [] s = "gps"  -> gps_fullpath(o)
               [] s = "bipm" -> bipm_fullpath(o)
    IN  p.err = NoErr /\ FileExists(p.path)

\* C1: a clock_corrections(t) call that returns, returns the site table's
\* value at t, plus the GPS table's value at t exactly when include_gps is
\* set, plus the BIPM table's value at t less 32.184 s (32184000 us) exactly
\* when include_bipm is set, and nothing else.
C1_ChainIsSumOfEnabledStages ==
    Returned =>
        LET o == self[1]
            t == call.t[1]
        IN  call.ret =
              << o._clock[1][t]
                 + (IF o.include_gps THEN o._gps_clock[1][t] ELSE 0)
                 + (IF o.include_bipm
                    THEN o._bipm_clock[1][t] - 32184000 ELSE 0) >>

\* A call returned with both stages on and a table value that is not 0.
C1_Witness ==
    /\ Returned
    /\ self[1].include_gps /\ self[1].include_bipm
    /\ self[1]._gps_clock[1][call.t[1]] = 1
    /\ self[1]._clock[1][call.t[1]] = 1

\* C2: with include_gps (include_bipm) False, clock_corrections never
\* resolves, reads or evaluates the GPS (BIPM) file: its slot stays empty,
\* no call fails at that stage, a call returns exactly when the enabled
\* stages' files can be loaded, whatever the disabled stage's file is, and
\* the value returned has no term of the disabled stage.
C2_DisabledStageNeverTouched ==
    self # <<>> =>
        LET o == self[1]
            off == {s \in Stage : ~Enabled(o, s)}
        IN  /\ \A s \in off :
                  /\ Slot(o, s) = <<>>
                  /\ loads[s] = 0
                  /\ s \notin touched
                  /\ s \notin call.hit
                  /\ call.at # s
            /\ Called =>
                  (call.err = NoErr
                     <=> \A s \in Stage \ off : Loadable(o, s))
            /\ (Returned /\ ~o.include_gps /\ ~o.include_bipm) =>
                  call.ret = << o._clock[1][call.t[1]] >>
            /\ (Returned /\ ~o.include_gps /\ o.include_bipm) =>
                  call.ret = << o._clock[1][call.t[1]]
                                + o._bipm_clock[1][call.t[1]] - 32184000 >>
            /\ (Returned /\ o.include_gps /\ ~o.include_bipm) =>
                  call.ret = << o._clock[1][call.t[1]]
                                + o._gps_clock[1][call.t[1]] >>

\* A call returned with GPS and BIPM off and neither file loadable.
C2_Witness ==
    /\ Returned
    /\ ~self[1].include_gps /\ ~self[1].include_bipm
    /\ ~Loadable(self[1], "gps") /\ ~Loadable(self[1], "bipm")

\* C3: construction leaves the three slots empty; each stage's table is
\* read into its slot at most once, and a call that returns has populated
\* the slot of every enabled stage; a populated slot is never changed again
\* (not reloaded, replaced or cleared), whatever else a call populates.
C3_LoadedOnceThenCached ==
    /\ [](self # <<>> /\ ~Called =>
            \A s \in Stage : Slot(self[1], s) = <<>>)
    /\ [](self # <<>> =>
            \A s \in Stage :
                /\ loads[s] <= 1
                /\ (Slot(self[1], s) # <<>> <=> loads[s] = 1)
                /\ (Returned /\ Enabled(self[1], s)
                      => Slot(self[1], s) # <<>>))
    /\ [][self # <<>> =>
            \A s \in Stage :
                /\ Slot(self[1], s) # <<>>
                      => /\ Slot(self'[1], s) = Slot(self[1], s)
                         /\ loads'[s] = loads[s]
                /\ loads'[s] = loads[s] => Slot(self'[1], s) = Slot(self[1], s)
         ]_vars

\* A call that found all three tables cached, each read once before it.
C3_Witness ==
    /\ Returned
    /\ call.hit = Stage
    /\ \A s \in Stage : loads[s] = 1
    /\ self[1]._clock[1][0] = 1

\* C6 (as claimed): construction never fails over a clock file, and a
\* clock_corrections call that fails, fails at an enabled stage whose table
\* was not cached, with a ValueError naming the configuration value that
\* could not be resolved: clock_file, the GPS file name, or bipm_version.
C6_MissingFileIsConfigurationError ==
    /\ ctor.args # <<>> =>
          (ctor.err # NoErr <=>
              \/ ctor.args[1].itrf_xyz = <<>>
              \/ Len(ctor.args[1].itrf_xyz[1]) # 3
              \/ /\ ctor.args[1].clock_dir = "TEMPO"
                 /\ ctor.args[1].clock_file = <<"time.dat">>
                 /\ ctor.args[1].tempo_code = None)
    /\ (Called /\ call.err # NoErr) =>
          /\ call.at \in Stage
          /\ Enabled(self[1], call.at)
          /\ call.at \notin call.hit
          /\ call.err.type = "ValueError"
          /\ call.err.arg = (CASE call.at = "site" -> "time.dat"
                               [] call.at = "gps" -> "gps2utc.clk"
                               [] call.at = "bipm" -> self[1].bipm_version)

\* The enabled stages clock_corrections goes through before stage s.
Before(o, s) ==
    {x \in Stage : /\ Enabled(o, x)
                   /\ \/ x = "site" /\ s \in {"gps", "bipm"}
                      \/ x = "gps" /\ s = "bipm"}

\* C11: a clock_corrections call that fails does not roll the cache back.
\* A slot is populated exactly when some earlier call read its table; a call
\* that fails returns no correction, leaves the slot of the stage it failed
\* at empty and the slots of the enabled stages before it populated (so a
\* failure at BIPM keeps the site table, and the GPS table if GPS is on);
\* the call after a failure at BIPM finds those tables cached, reads
\* neither again, and attempts the BIPM load anew: it returns when the file
\* can now be loaded, and fails at BIPM with the ValueError again when not.
C11_FailedCallKeepsWhatItLoaded ==
    /\ [](self # <<>> =>
            \A s \in Stage : (Slot(self[1], s) # <<>> <=> loads[s] > 0))
    /\ [](Called /\ call.err # NoErr =>
            /\ call.ret = <<>>
            /\ call.at \in Stage
            /\ Slot(self[1], call.at) = <<>>
            /\ \A x \in Before(self[1], call.at) : Slot(self[1], x) # <<>>)
    /\ [][(self # <<>> /\ env' = env /\ call.at = "bipm") =>
            /\ call'.hit = Before(self[1], "bipm")
            /\ \A x \in Stage \ {"bipm"} :
                  /\ loads'[x] = loads[x]
                  /\ Slot(self'[1], x) = Slot(self[1], x)
            /\ IF Loadable(self[1], "bipm")
               THEN /\ call'.err = NoErr
                    /\ call'.ret # <<>>
                    /\ loads'["bipm"] = loads["bipm"] + 1
                    /\ Slot(self'[1], "bipm") # <<>>
               ELSE /\ call'.at = "bipm"
                    /\ call'.err.type = "ValueError"
                    /\ call'.ret = <<>>
                    /\ loads' = loads
                    /\ self' = self
         ]_vars

\* A call that returned having found the site and GPS tables cached and the
\* BIPM table not: an earlier call read the two and failed at BIPM, and this
\* one read the BIPM file alone.
C11_Witness ==
    /\ Returned
    /\ self[1].include_gps /\ self[1].include_bipm
    /\ call.hit = {"site", "gps"}
    /\ \A s \in Stage : loads[s] = 1
    /\ self[1]._bipm_clock[1][call.t[1]] = 1

(***************************************************************************)
(* Properties of construction                                             *)
(***************************************************************************)
Constructed == ctor.args # <<>>

\* C4 (as claimed): an observatory built to read 'time.dat' in the tempo
\* format has a tempo_code, whatever its clock_dir, and building one
\* without a tempo_code fails.
C4_TimeDatNeedsTempoCode ==
    /\ (/\ self # <<>>
        /\ self[1].clock_file = <<"time.dat">>
        /\ self[1].clock_fmt = "tempo")
          => self[1].tempo_code # None
    /\ (/\ Constructed
        /\ ctor.args[1].clock_file = <<"time.dat">>
        /\ ctor.args[1].clock_fmt = "tempo"
        /\ ctor.args[1].tempo_code = None)
          => ctor.err.type = "ValueError"

\* C5: a TopoObs(...) call without itrf_xyz, or with coordinates that are
\* not exactly 3 components, fails with a ValueError naming the observatory
\* and builds no instance; and no failed construction, over the coordinates
\* or over the site code, changes the registry.
C5_BadCoordinatesFailBeforeRegistration ==
    /\ [](Constructed =>
            LET a == ctor.args[1]
            IN  (a.itrf_xyz = <<>> \/ Len(a.itrf_xyz[1]) # 3)
                   => /\ ctor.err.type = "ValueError"
                      /\ ctor.err.arg = a.name
                      /\ self = <<>>)
    /\ [][ctor'.err # NoErr => registry' = registry]_vars
    /\ [](self # <<>> => Len(self[1]._loc_itrf) = 3)

\* A construction with 2 coordinates failed while another observatory was
\* registered.
C5_Witness ==
    /\ Constructed
    /\ ctor.args[1].itrf_xyz = << <<0, 0>> >>
    /\ ctor.err.type = "ValueError"
    /\ registry = {"ao"}

(***************************************************************************)
(* The inputs and the specifications of fermiphase                         *)
(***************************************************************************)
MJDs == 1..MaxMJD

OptMJD == {<<>>} \cup {<<m>> : m \in MJDs}

\* A parfile in the working directory, one in a directory, one with a
\* dotted suffix.
Parfiles ==
    { << <<"J0030", "par">> >>,
      << <<"pars">>, <<"J0218", "par">> >>,
      << <<"J0030", "v2", "par">> >> }

Logerefs == {36, 41}

Hs == {5, 7}

FermiArgs ==
    [ parfile : Parfiles, addphase : BOOLEAN, minMJD : OptMJD,
      maxMJD : OptMJD, outfile : {None, "out.fits"}, logeref : Logerefs,
      randomphase : BOOLEAN, hout : BOOLEAN ]

\* The sequences of at most n elements of S.
SeqsUpTo(S, n) == UNION {[1..k -> S] : k \in 0..n}

\* What modelin.phase can return as a fractional phase: more than -1 cycle,
\* less than 1 cycle.
Fracs == (1 - Cycle)..(Cycle - 1)

\* What np.random.uniform(low=0.0, high=1.0) can draw.
Uniform == 0..(Cycle - 1)

\* A store that holds nothing, and one that holds J0030 with every bucket
\* in use.
Stores ==
    { [p \in Pulsars |-> <<>>],
      [p \in Pulsars |->
         IF p = "J0030"
         THEN <<[random |-> <<5>>, valid |-> {<<41, 5>>},
                 full |-> {<<41, 5>>, <<36, 7>>}]>>
         ELSE <<>>] }

ObsIdle ==
    /\ env = [datapath |-> {}, getenv |-> {}, ext |-> FALSE]
    /\ registry = {}
    /\ self = <<>>
    /\ ctor = NoCtor
    /\ call = NoCall
    /\ loads = NoLoads
    /\ touched = {}

\* The MJD filter: any event table, any bounds, nothing written.
InitFilter ==
    /\ ObsIdle
    /\ eventfile \in [mjd : SeqsUpTo(MJDs, MaxEvents), phase : {<<>>}]
    /\ outfile = <<>>
    /\ results = [p \in Pulsars |-> <<>>]
    /\ run = NoRun

FilterArgs ==
    {a \in FermiArgs : /\ a.parfile = << <<"J0030", "par">> >>
                       /\ ~a.addphase /\ a.outfile = None /\ a.logeref = 41
                       /\ ~a.randomphase /\ ~a.hout}

PhasesOf(a, S) ==
    [1..Len(DiscardOutsideMJD(load_Fermi_TOAs(eventfile),
                              a.minMJD, a.maxMJD)) -> S]

NextFilter ==
    /\ run = NoRun
    /\ \E a \in FilterArgs :
        \E phss \in PhasesOf(a, {0}) : main(a, phss, phss, 5)

SpecFilter == InitFilter /\ [][NextFilter]_vars

\* Phase folding: a few events on one day, any phases, no filter.
InitFold ==
    /\ ObsIdle
    /\ eventfile \in [mjd : SeqsUpTo({1}, MaxEvents), phase : {<<>>}]
    /\ outfile = <<>>
    /\ results = [p \in Pulsars |-> <<>>]
    /\ run = NoRun

FoldArgs ==
    {a \in FermiArgs : /\ a.parfile = << <<"J0030", "par">> >>
                       /\ a.minMJD = <<>> /\ a.maxMJD = <<>>
                       /\ a.outfile = None /\ a.logeref = 41
                       /\ ~a.randomphase /\ ~a.hout}

NextFold ==
    /\ run = NoRun
    /\ \E a \in FoldArgs :
        \E phss \in PhasesOf(a, Fracs), rnd \in PhasesOf(a, {0}) :
            main(a, phss, rnd, 5)

SpecFold == InitFold /\ [][NextFold]_vars

\* The outputs: an event a day, with or without a PULSE_PHASE column, an
\* empty or a used store, any arguments.
InitFermi ==
    /\ ObsIdle
    /\ \E k \in 0..MaxEvents :
          /\ eventfile \in [mjd : {[i \in 1..k |-> i]},
                            phase : {<<>>, <<[i \in 1..k |-> 0]>>}]
          /\ k <= MaxMJD
    /\ outfile = <<>>
    /\ results \in Stores
    /\ run = NoRun

NextFermi ==
    /\ run = NoRun
    /\ \E a \in FermiArgs, h \in Hs :
        \E phss \in PhasesOf(a, {-PhaseRes}),
           rnd \in PhasesOf(a, {2 * PhaseRes}) :
            main(a, phss, rnd, h)

SpecFermi == InitFermi /\ [][NextFermi]_vars

(***************************************************************************)
(* Properties of fermiphase                                                *)
(***************************************************************************)
Ran == run.args # <<>>

\* C7 (as claimed): a run that aborts on the mismatch between the event
\* table's rows and the phase array has written nothing: the event file,
\* the output file and the result store are as they were.
C7_MismatchWritesNothing ==
    [][run'.err.type = "RuntimeError" =>
          /\ eventfile' = eventfile
          /\ outfile' = outfile
          /\ results' = results]_vars

\* C8: the events the filter retains are exactly those with minMJD < mjd
\* (when --minMJD is given) and mjd < maxMJD (when --maxMJD is given), in
\* their original order, so an event on either bound is dropped; and
\* applying the maximum first and the minimum second retains the same
\* sequence.
C8_FilterIsStrictAndOrderPreserving ==
    Ran =>
        LET a == run.args[1]
            all == eventfile.mjd
            Inside(m) == /\ a.minMJD # <<>> => a.minMJD[1] < m
                         /\ a.maxMJD # <<>> => m < a.maxMJD[1]
        IN  /\ run.tl = SelectSeq(all, Inside)
            /\ \A i \in 1..Len(run.tl) :
                  /\ <<run.tl[i]>> # a.minMJD
                  /\ <<run.tl[i]>> # a.maxMJD
            /\ (a.minMJD # <<>> /\ a.maxMJD # <<>>) =>
                  run.tl = KeepAfterMin(
                             KeepBeforeMax(all, a.maxMJD[1], <<>>),
                             a.minMJD[1], <<>>)

\* A run with both bounds that dropped an event on each bound and kept one.
C8_Witness ==
    /\ Ran
    /\ run.args[1].minMJD = <<1>> /\ run.args[1].maxMJD = <<3>>
    /\ eventfile.mjd = <<3, 2, 1>>
    /\ run.tl = <<2>>

ClaimedBucket(a) ==
    IF a.randomphase THEN "random"
    ELSE IF a.minMJD # <<>> \/ a.maxMJD # <<>> THEN "valid"
    ELSE "full"

\* C10 (as claimed): a run with --hout changes one bucket of its pulsar's
\* entry and nothing else of the store: 'random' gets H appended by a
\* random-phase run, 'valid'[logeref] is set by a non-random run with
\* --minMJD and/or --maxMJD, 'full'[logeref] by a non-random run with
\* neither; a pulsar that is not in the store starts from empty buckets.
C10_HoutUpdatesTheRunsBucket ==
    [][run'.saved =>
          LET a == run'.args[1]
              h == run'.h[1]
              pulsar == a.parfile[Len(a.parfile)][1]
              old == IF results[pulsar] = <<>>
                     THEN [random |-> <<>>, valid |-> {}, full |-> {}]
                     ELSE results[pulsar][1]
              new == results'[pulsar][1]
              b == ClaimedBucket(a)
          IN  /\ \A p \in Pulsars \ {pulsar} : results'[p] = results[p]
              /\ results'[pulsar] # <<>>
              /\ new.random = IF b = "random" THEN old.random \o <<h>>
                              ELSE old.random
              /\ new.valid = IF b = "valid"
                             THEN {kv \in old.valid : kv[1] # a.logeref}
                                    \cup {<<a.logeref, h>>}
                             ELSE old.valid
              /\ new.full = IF b = "full"
                            THEN {kv \in old.full : kv[1] # a.logeref}
                                   \cup {<<a.logeref, h>>}
                            ELSE old.full]_vars

====
